---------------------------- MODULE Spec2Model ----------------------------
(***************************************************************************)
(* A model of the TCP load balancer: the consistent-hash ring              *)
(* (hashing.ConsistentHasher), the connection pool (connpool.Pool), the    *)
(* backend registry and per-connection handler (balancer.balancer) and     *)
(* the health checker loop (health.Checker).                               *)
(*                                                                         *)
(* Strings are tuples of bytes.  A uint32 v is held as v - 2^31, which     *)
(* keeps the order of the uint32 values inside TLC's 32-bit integers.      *)
(***************************************************************************)
EXTENDS Integers, Sequences, FiniteSets, TLC

VARIABLES
    hasher,     \* hashing.ConsistentHasher: [hash, nodes, weights]
    ringOps,    \* number of Add/Remove calls made on the ring
    pool,       \* connpool.Pool: Nil, or [maxIdle, maxActive, idleTimeout, active, idle]
    conns,      \* the net.Conn objects dialed so far: conns[c] = [addr, closed]
    rel,        \* history of the pool's use: out, the connections checked out by a caller, and
                \* cached, the connections put back and still open, with the time
                \* of the Put, in the order of the Puts
    now,        \* the clock
    reachable,  \* the endpoints (IP:port) that accept a TCP connect
    backends,   \* balancer.backends (sync.Map): key -> [host, port, weight, health]
    sess,       \* the client sessions accepted so far, one handleConnection each
    checker,    \* health.Checker: [phiThreshold, histories, lastCheck]
    probing,    \* hosts whose probe goroutine (checkAll's go func) is in flight
    phase,      \* main: "none" before Start, "serving", "cancelled", "stopped"
    loops,      \* the two loops step by step: where balancer.Start and
                \* Checker.Start are, the listener, b.listener, the context
    samples,    \* history of recordSuccess: per host, the durations it was
                \* called with, oldest first
    ret         \* outcome of the call made by the last step

ringVars == <<hasher, ringOps>>
poolVars == <<pool, conns, rel, now, reachable>>
balVars == <<backends, sess, checker, probing, phase, loops, samples>>
vars == <<hasher, ringOps, pool, conns, rel, now, reachable,
          backends, sess, checker, probing, phase, loops, samples, ret>>

-----------------------------------------------------------------------------
(* Bounds of the model *)

MaxWeight == 2      \* ring weights are drawn from 1..MaxWeight
MaxRingOps == 3     \* Add/Remove calls made on the ring
NumClients == 3     \* distinct client source ports
MaxSessions == 2    \* client connections accepted in one run
MaxConns == 2       \* connections dialed in one run
MaxTime == 2        \* clock ticks in one run
MaxIdleCfg == 2     \* pool configurations: MaxIdle in 0..MaxIdleCfg
MaxActiveCfg == 2   \* pool configurations: MaxActive in 0..MaxActiveCfg
MaxTimeoutCfg == 1  \* pool configurations: IdleTimeout in 0..MaxTimeoutCfg
FreeCalls == 2      \* recordSuccess calls made before and after the sample
                    \* buffer becomes full, and twice as many on a new checker

-----------------------------------------------------------------------------
(* Strings *)

EmptyString == << >>
Colon == <<58>>

RECURSIVE Itoa(_)
\* the decimal digits of n >= 0, as "%d" prints them
Itoa(n) == IF n < 10 THEN <<48 + n>> ELSE Itoa(n \div 10) \o <<48 + (n % 10)>>

\* fmt.Sprintf("%s:%d", host, port)
SprintfHostPort(host, port) == host \o Colon \o Itoa(port)

\* string(rune(i)): the UTF-8 encoding of code point i, U+FFFD for a surrogate
\* or a value above U+10FFFF
RuneString(i) ==
    IF i < 128 THEN <<i>>
    ELSE IF i < 2048 THEN <<192 + (i \div 64), 128 + (i % 64)>>
    ELSE IF (i >= 55296 /\ i <= 57343) \/ i > 1114111 THEN <<239, 191, 189>>
    ELSE IF i < 65536
         THEN <<224 + (i \div 4096), 128 + ((i \div 64) % 64), 128 + (i % 64)>>
    ELSE <<240 + (i \div 262144), 128 + ((i \div 4096) % 64),
           128 + ((i \div 64) % 64), 128 + (i % 64)>>

Host1 == <<49, 50, 55, 46, 48, 46, 48, 46, 49>>     \* "127.0.0.1"
Host2 == <<49, 50, 55, 46, 48, 46, 48, 46, 50>>     \* "127.0.0.2"
Host3 == <<49, 50, 55, 46, 48, 46, 48, 46, 51>>     \* "127.0.0.3"
ClientIP == <<49, 48, 46, 48, 46, 48, 46, 55>>      \* "10.0.0.7"

\* "127.0.0.1:9001": a host string that is also the address of Host1, port 9001
Host1Port1 == SprintfHostPort(Host1, 9001)

\* net.Conn.RemoteAddr().String() of the client connections
ClientKeys == {SprintfHostPort(ClientIP, 50000 + p) : p \in 1..NumClients}

-----------------------------------------------------------------------------
(* Maps (Go map[K]V): a function on the keys present *)

EmptyMap == [k \in {} |-> 0]
MapGet(m, k, zero) == IF k \in DOMAIN m THEN m[k] ELSE zero
MapPut(m, k, v) == [x \in (DOMAIN m) \cup {k} |-> IF x = k THEN v ELSE m[x]]
MapDelete(m, ks) == [x \in (DOMAIN m) \ ks |-> m[x]]

-----------------------------------------------------------------------------
(* hashing: CRC-32 (IEEE) and the consistent-hash ring *)

replicationFactor == 100

RECURSIVE XorBits(_, _)
XorBits(a, b) ==
    IF a = 0 THEN b
    ELSE IF b = 0 THEN a
    ELSE ((a + b) % 2) + 2 * XorBits(a \div 2, b \div 2)

XorNibble == [a \in 0..15 |-> [b \in 0..15 |-> XorBits(a, b)]]

\* a XOR b for a, b in 0..65535, four bits at a time
Xor(a, b) ==
    XorNibble[a % 16][b % 16]
    + 16 * XorNibble[(a \div 16) % 16][(b \div 16) % 16]
    + 256 * XorNibble[(a \div 256) % 16][(b \div 256) % 16]
    + 4096 * XorNibble[a \div 4096][b \div 4096]

RECURSIVE crcBits(_, _)
\* k shift-and-reduce rounds of the reflected polynomial 0xEDB88320 on the
\* 32-bit value c = <<high 16 bits, low 16 bits>>
crcBits(c, k) ==
    IF k = 0 THEN c
    ELSE LET hi == c[1] \div 2
             lo == (c[2] \div 2) + (c[1] % 2) * 32768
         IN  crcBits(IF c[2] % 2 = 1 THEN <<Xor(hi, 60856), Xor(lo, 33568)>>
                                     ELSE <<hi, lo>>, k - 1)

crcTable == [n \in 0..255 |-> crcBits(<<0, n>>, 8)]

\* one byte: crc = table[byte(crc) ^ b] ^ (crc >> 8)
crcByte(c, b) ==
    LET t == crcTable[Xor(c[2] % 256, b)]
    IN  <<Xor(t[1], c[1] \div 256), Xor(t[2], (c[2] \div 256) + (c[1] % 256) * 256)>>

RECURSIVE crcUpdate(_, _, _)
\* the loop of crc32.Update over the bytes p[i..]: crc is a 32-bit register
\* at every iteration, and each byte is folded in before the next is read
crcUpdate(crc, p, i) ==
    IF crc[1] \in 0..65535 /\ i <= Len(p)
    THEN crcUpdate(crcByte(crc, p[i]), p, i + 1)
    ELSE crc

\* crc32.ChecksumIEEE(p), held as the uint32 value minus 2^31
ChecksumIEEE(p) ==
    LET c == crcUpdate(<<65535, 65535>>, p, 1)
    IN  (65535 - c[1] - 32768) * 65536 + (65535 - c[2])

hashKey(key) == ChecksumIEEE(key)

HasherNew == [hash |-> EmptyMap, nodes |-> << >>, weights |-> EmptyMap]

\* the hashes of the virtual nodes Add and Remove compute for node:
\* hashKey(node + string(rune(i))) for i = 0 .. replicationFactor*weight - 1
VirtualHashes(node, weight) ==
    [i \in 1..(replicationFactor * weight) |-> hashKey(node \o RuneString(i - 1))]

SeqRange(s) == {s[i] : i \in DOMAIN s}

\* Add without the sort.Slice of c.nodes
HasherAddUnsorted(c, node, weight) ==
    LET hs == VirtualHashes(node, weight)
        hset == SeqRange(hs)
    IN  [weights |-> MapPut(c.weights, node, weight),
         hash |-> [h \in (DOMAIN c.hash) \cup hset |->
                      IF h \in hset THEN node ELSE c.hash[h]],
         nodes |-> c.nodes \o hs]

HasherAdd(c, node, weight) ==
    LET hs == VirtualHashes(node, weight)
        hset == SeqRange(hs)
    IN  [weights |-> MapPut(c.weights, node, weight),
         hash |-> [h \in (DOMAIN c.hash) \cup hset |->
                      IF h \in hset THEN node ELSE c.hash[h]],
         nodes |-> SortSeq(c.nodes \o hs, LAMBDA a, b : a < b)]

\* the loop of Remove that rebuilds c.nodes: it reads c.hash after the
\* deletions, where a missing key reads as ""
RemoveKeeps(hash, v, node) == MapGet(hash, v, EmptyString) # node

HasherRemove(c, node) ==
    LET weight == MapGet(c.weights, node, 0)
        hs == VirtualHashes(node, weight)
        hash1 == MapDelete(c.hash, SeqRange(hs))
    IN  [weights |-> MapDelete(c.weights, {node}),
         hash |-> hash1,
         nodes |-> SelectSeq(c.nodes, LAMBDA v : RemoveKeeps(hash1, v, node))]

RECURSIVE SortSearchAbove(_, _, _, _)
\* a search for the first entry > hash
SortSearchAbove(nodes, hash, lo, hi) ==
    IF lo >= hi THEN lo
    ELSE LET h == (lo + hi) \div 2
         IN  IF ~(nodes[h + 1] > hash)
             THEN SortSearchAbove(nodes, hash, h + 1, hi)
             ELSE SortSearchAbove(nodes, hash, lo, h)

RECURSIVE SortSearch(_, _, _, _)
\* sort.Search(n, f) with f(i) = (nodes[i] >= hash), on 0-based i in [lo, hi)
SortSearch(nodes, hash, lo, hi) ==
    IF lo >= hi THEN lo
    ELSE LET h == (lo + hi) \div 2
         IN  IF ~(nodes[h + 1] >= hash)
             THEN SortSearch(nodes, hash, h + 1, hi)
             ELSE SortSearch(nodes, hash, lo, h)

\* a placement by the remainder of the hash by the number of entries
GetIndexModulo(c, key) == hashKey(key) % Len(c.nodes)

\* idx of Get, 0-based: the result of sort.Search, or 0 when it is len(c.nodes)
GetIndex(c, key) ==
    LET found == SortSearch(c.nodes, hashKey(key), 0, Len(c.nodes))
    IN  IF found = Len(c.nodes) THEN 0 ELSE found

HasherGet(c, key) ==
    IF Len(c.nodes) = 0 THEN EmptyString
    ELSE MapGet(c.hash, c.nodes[GetIndex(c, key) + 1], EmptyString)

-----------------------------------------------------------------------------
(* The ring driven directly: Add, Remove and Get in any order *)

RingHosts == {Host1, Host2}

\* a client key whose hash lies above every ring entry of RingHosts
WrapKey == SprintfHostPort(ClientIP, 51344)
\* a key whose hash is the hash of a ring entry of Host1
EntryKey == Host1 \o RuneString(7)

RingKeys == ClientKeys \cup {WrapKey, EntryKey}
NoCall == [op |-> "none"]
Nil == [nil |-> TRUE]
NoRel == [out |-> {}, cached |-> << >>]

\* the loops are not followed step by step
NoLoops == [nil |-> TRUE]

NoChecker == [phiThreshold |-> 0, histories |-> EmptyMap, lastCheck |-> EmptyMap]

\* no balancer has been built
IdleBalancer ==
    /\ backends = EmptyMap /\ sess = << >> /\ checker = NoChecker
    /\ probing = {} /\ phase = "none" /\ loops = NoLoops /\ samples = EmptyMap

IdleRest ==
    /\ pool = Nil /\ conns = << >> /\ rel = NoRel
    /\ now = 0 /\ reachable = {}
    /\ IdleBalancer

InitRing ==
    /\ hasher = HasherNew
    /\ ringOps = 0
    /\ ret = NoCall
    /\ IdleRest

\* the membership: the hosts added and not removed since
Members == DOMAIN hasher.weights

RingAdd ==
    \E node \in RingHosts \ Members, weight \in 1..MaxWeight :
        /\ ringOps < MaxRingOps
        /\ hasher' = HasherAdd(hasher, node, weight)
        /\ ringOps' = ringOps + 1
        /\ ret' = [op |-> "Add", node |-> node]
        /\ UNCHANGED <<poolVars, balVars>>

RingRemove ==
    \E node \in RingHosts :
        /\ ringOps < MaxRingOps
        /\ hasher' = HasherRemove(hasher, node)
        /\ ringOps' = ringOps + 1
        /\ ret' = [op |-> "Remove", node |-> node]
        /\ UNCHANGED <<poolVars, balVars>>

RingGet ==
    \E key \in RingKeys :
        /\ ret' = [op |-> "HasherGet", key |-> key, host |-> HasherGet(hasher, key)]
        /\ UNCHANGED <<ringVars, poolVars, balVars>>

NextRing == RingAdd \/ RingRemove \/ RingGet

SpecRing == InitRing /\ [][NextRing]_vars

-----------------------------------------------------------------------------
(* The ring with three hosts, so that a host can join two others *)

GrowHosts == {Host1, Host2, Host3}

\* the client keys looked up around an Add
GrowKeys == RingKeys \cup {SprintfHostPort(ClientIP, 40000 + p) : p \in 1..(3 * NumClients)}

GrowAdd ==
    \E node \in GrowHosts \ Members, weight \in 1..MaxWeight :
        /\ ringOps < MaxRingOps
        /\ hasher' = HasherAdd(hasher, node, weight)
        /\ ringOps' = ringOps + 1
        /\ ret' = [op |-> "Add", node |-> node]
        /\ UNCHANGED <<poolVars, balVars>>

\* the membership changes alone: Get leaves the ring as it is
NextGrow == GrowAdd \/ RingRemove

SpecGrow == InitRing /\ [][NextGrow]_vars

\* C21: an Add of a host that is not in the ring moves no key between two
\* hosts that were there: Get of every key after the Add is what it was
\* before the Add, or is the host added.
C21_AddMovesKeysToNewHostOnly ==
    [][ret'.op = "Add"
          => \A key \in GrowKeys :
                 \/ HasherGet(hasher', key) = HasherGet(hasher, key)
                 \/ HasherGet(hasher', key) = ret'.node]_vars

\* a third host has joined two others: some keys went to it, and some stay
\* on each of the two
C21_Witness ==
    /\ ret.op = "Add" /\ Members = GrowHosts
    /\ \A node \in GrowHosts : \E key \in GrowKeys : HasherGet(hasher, key) = node

-----------------------------------------------------------------------------
\* C2: with a non-empty membership, Get returns a member for every key,
\* never the empty string and never a removed host.
C2_RingCoverage ==
    Members # {} => \A key \in ClientKeys : HasherGet(hasher, key) \in Members

\* position p (1-based) holds the smallest entry >= h, or is the first
\* position when every entry is smaller than h
IsSmallestAtLeast(nodes, h, p) ==
    IF \E i \in 1..Len(nodes) : nodes[i] >= h
    THEN /\ nodes[p] >= h
         /\ \A i \in 1..Len(nodes) : nodes[i] >= h => nodes[p] <= nodes[i]
    ELSE p = 1

\* what Get(key) is to return on ring c, given the position p it reads
GetAnswers(c, key, p, host) ==
    IF Len(c.nodes) = 0 THEN host = EmptyString
    ELSE /\ IsSmallestAtLeast(c.nodes, hashKey(key), p)
         /\ host = MapGet(c.hash, c.nodes[p], EmptyString)

\* C13: Get returns empty on an empty entries list and otherwise the host
\* mapped to the smallest entry >= hash32(key), wrapping to the first entry;
\* a Get leaves the ring as it was, so its result is a function of the
\* membership and the key.
C13_GetSmallestAtLeast ==
    /\ [](\A key \in RingKeys :
             GetAnswers(hasher, key, GetIndex(hasher, key) + 1, HasherGet(hasher, key)))
    /\ [][ret'.op = "HasherGet"
             => (hasher' = hasher /\ ret'.host = HasherGet(hasher', ret'.key))]_vars

\* the hashes that c maps to node
EntriesOf(c, node) == {h \in DOMAIN c.hash : c.hash[h] = node}

\* ring d is ring c without node: none of node's entries in the entries
\* list or the mapping, no weight record, everything else as before
WithoutHost(c, d, node) ==
    /\ d.nodes = SelectSeq(c.nodes, LAMBDA v : v \notin EntriesOf(c, node))
    /\ DOMAIN d.hash = (DOMAIN c.hash) \ EntriesOf(c, node)
    /\ \A h \in DOMAIN d.hash : d.hash[h] = c.hash[h]
    /\ DOMAIN d.weights = (DOMAIN c.weights) \ {node}
    /\ \A n \in DOMAIN d.weights : d.weights[n] = c.weights[n]

\* C17: Remove(host) of a host in the ring removes all of its entries from
\* the entries list and the mapping and drops its weight record, leaving
\* the entries of the other hosts; Remove of a host not in the ring changes
\* nothing.
C17_RemoveWhole ==
    [][ret'.op = "Remove"
          => IF ret'.node \in Members
             THEN WithoutHost(hasher, hasher', ret'.node)
             ELSE hasher' = hasher]_vars

\* C19: after any sequence of Add and Remove the entries list is sorted
\* ascending by hash value.
C19_NodesSorted ==
    \A i \in 1..(Len(hasher.nodes) - 1) : hasher.nodes[i] <= hasher.nodes[i + 1]

\* a Remove has returned on a ring that two Adds filled, and in the list
\* an entry of the host still mapped lies between two entries of the other
C19_Witness ==
    /\ ret.op = "Remove"
    /\ Len(hasher.nodes) >= 2 * replicationFactor
    /\ \E i \in 2..(Len(hasher.nodes) - 1) :
           /\ hasher.nodes[i] \in DOMAIN hasher.hash
           /\ hasher.nodes[i - 1] \notin DOMAIN hasher.hash
           /\ hasher.nodes[i + 1] \notin DOMAIN hasher.hash

\* a Get that wrapped to the first entry, and the ring answers a key that
\* hits an entry exactly
C13_Witness ==
    /\ ret.op = "HasherGet" /\ ret.key = WrapKey
    /\ Len(hasher.nodes) > 0
    /\ hashKey(WrapKey) > hasher.nodes[Len(hasher.nodes)]
    /\ ret.host = hasher.hash[hasher.nodes[1]]
    /\ \E i \in 1..Len(hasher.nodes) : hasher.nodes[i] = hashKey(EntryKey)

-----------------------------------------------------------------------------
(* connpool: the connection pool.  Every public operation runs under p.mu,  *)
(* so each is one step.  An operation maps the pool p and the connection   *)
(* objects cs to their new values and its results.                          *)

NoConn == 0

\* "localhost:9001", which net.Dial resolves to 127.0.0.1:9001
LocalhostPort1 == <<108, 111, 99, 97, 108, 104, 111, 115, 116>> \o Colon \o Itoa(9001)

\* conn.RemoteAddr().String() of a connection dialed to addr: the resolved
\* IP and port
RemoteAddrOf(addr) == IF addr = LocalhostPort1 THEN Host1Port1 ELSE addr

\* p.dialFunc(addr): net.DialTimeout succeeds when the endpoint accepts connections
dialFunc(cs, addr) ==
    IF RemoteAddrOf(addr) \in reachable
    THEN [cs |-> Append(cs, [addr |-> RemoteAddrOf(addr), closed |-> FALSE]),
          conn |-> Len(cs) + 1, err |-> ""]
    ELSE [cs |-> cs, conn |-> NoConn, err |-> "dial"]

\* conn.Close()
CloseConn(cs, c) == [cs EXCEPT ![c].closed = TRUE]

PoolNew(cfg) ==
    IF cfg.MaxIdle <= 0 \/ cfg.MaxActive <= 0
    THEN [pool |-> Nil, err |-> "invalid pool configuration"]
    ELSE [pool |-> [maxIdle |-> cfg.MaxIdle, maxActive |-> cfg.MaxActive,
                    idleTimeout |-> cfg.IdleTimeout, active |-> 0,
                    idle |-> EmptyMap],
          err |-> ""]

TimedOutLate(p, e) == now - e.timeAdded > p.idleTimeout + 1

\* time.Since(conn.timeAdded) > p.idleTimeout
TimedOut(p, e) == now - e.timeAdded > p.idleTimeout

IdleFullOffByOne(p, addr) == Len(MapGet(p.idle, addr, << >>)) > p.maxIdle

\* len(p.idle[addr]) >= p.maxIdle
IdleFull(p, addr) == Len(MapGet(p.idle, addr, << >>)) >= p.maxIdle

\* p.active >= p.maxActive
AtCapacity(p) == p.active >= p.maxActive

\* createConn with the p.active++ ahead of the dial
createConnCountsDial(p, cs, addr) ==
    IF AtCapacity(p)
    THEN [pool |-> p, conns |-> cs, conn |-> NoConn,
          err |-> "max active connections reached", dialed |-> FALSE, stale |-> NoConn]
    ELSE LET d == dialFunc(cs, addr)
         IN  IF d.err # ""
             THEN [pool |-> [p EXCEPT !.active = @ + 1], conns |-> cs, conn |-> NoConn,
                   err |-> "error dialing connection", dialed |-> TRUE, stale |-> NoConn]
             ELSE [pool |-> [p EXCEPT !.active = @ + 1], conns |-> d.cs,
                   conn |-> d.conn, err |-> "", dialed |-> TRUE, stale |-> NoConn]

createConn(p, cs, addr) ==
    IF AtCapacity(p)
    THEN [pool |-> p, conns |-> cs, conn |-> NoConn,
          err |-> "max active connections reached", dialed |-> FALSE, stale |-> NoConn]
    ELSE LET d == dialFunc(cs, addr)
         IN  IF d.err # ""
             THEN [pool |-> p, conns |-> cs, conn |-> NoConn,
                   err |-> "error dialing connection", dialed |-> TRUE, stale |-> NoConn]
             ELSE [pool |-> [p EXCEPT !.active = @ + 1], conns |-> d.cs,
                   conn |-> d.conn, err |-> "", dialed |-> TRUE, stale |-> NoConn]

FirstEntry(bucket) == bucket[1]

\* conns[len(conns)-1]
LastEntry(bucket) == bucket[Len(bucket)]

\* the results of Get carry dialed (a dial was attempted) and stale (the
\* connection Get closed as timed out, if any)
PoolGet(p, cs, addr) ==
    IF addr \in DOMAIN p.idle /\ Len(p.idle[addr]) > 0
    THEN LET bucket == p.idle[addr]
             e == LastEntry(bucket)
             p1 == [p EXCEPT !.idle[addr] = SubSeq(bucket, 1, Len(bucket) - 1)]
         IN  IF TimedOut(p1, e)
             THEN [createConn(p1, CloseConn(cs, e.conn), addr) EXCEPT !.stale = e.conn]
             ELSE [pool |-> [p1 EXCEPT !.active = @ + 1], conns |-> cs,
                   conn |-> e.conn, err |-> "", dialed |-> FALSE, stale |-> NoConn]
    ELSE createConn(p, cs, addr)

\* a guard that lets a Put through at active = 0
NotFromPoolBelowZero(p) == p.active < 0

\* p.active <= 0: no connection is checked out
NotFromPool(p) == p.active <= 0

\* Put without the p.active-- of pool.go:88
PoolPutLeak(p, cs, c) ==
    IF NotFromPool(p)
    THEN [pool |-> p, conns |-> cs, err |-> "connection not from pool"]
    ELSE LET addr == cs[c].addr
         IN  IF IdleFull(p, addr)
             THEN [pool |-> p, conns |-> CloseConn(cs, c), err |-> ""]
             ELSE [pool |-> [p EXCEPT !.idle = MapPut(@, addr,
                               Append(MapGet(@, addr, << >>),
                                      [conn |-> c, timeAdded |-> now]))],
                   conns |-> cs, err |-> ""]

PoolPut(p, cs, c) ==
    IF NotFromPool(p)
    THEN [pool |-> p, conns |-> cs, err |-> "connection not from pool"]
    ELSE LET p1 == [p EXCEPT !.active = @ - 1]
             addr == cs[c].addr
         IN  IF IdleFull(p1, addr)
             THEN [pool |-> p1, conns |-> CloseConn(cs, c), err |-> ""]
             ELSE [pool |-> [p1 EXCEPT !.idle = MapPut(@, addr,
                                Append(MapGet(@, addr, << >>),
                                       [conn |-> c, timeAdded |-> now]))],
                   conns |-> cs, err |-> ""]

\* the connections cached in the buckets of p
IdleConns(p) == UNION {{p.idle[a][i].conn : i \in DOMAIN p.idle[a]} : a \in DOMAIN p.idle}

PoolClose(p, cs) ==
    [pool |-> [p EXCEPT !.idle = EmptyMap],
     conns |-> [c \in DOMAIN cs |->
                   IF c \in IdleConns(p) THEN [cs[c] EXCEPT !.closed = TRUE] ELSE cs[c]],
     err |-> ""]

\* one pass of the cleanup goroutine's loop body
cleanup(p, cs) ==
    LET valid(a) == SelectSeq(p.idle[a], LAMBDA e : ~TimedOut(p, e))
        stale == {c \in IdleConns(p) :
                     \E a \in DOMAIN p.idle : \E i \in DOMAIN p.idle[a] :
                         p.idle[a][i].conn = c /\ TimedOut(p, p.idle[a][i])}
        keep == {a \in DOMAIN p.idle : Len(valid(a)) # 0}
    IN  [pool |-> [p EXCEPT !.idle = [a \in keep |-> valid(a)]],
         conns |-> [c \in DOMAIN cs |->
                       IF c \in stale THEN [cs[c] EXCEPT !.closed = TRUE] ELSE cs[c]]]

-----------------------------------------------------------------------------
(* The pool driven directly: New, then Get, Put, Close, the cleanup pass    *)
(* and the clock in any order.  A caller puts back only a connection it    *)
(* got and has not put back.                                               *)

PoolAddrs == {Host1Port1, SprintfHostPort(Host2, 9001), LocalhostPort1}

PoolConfigs ==
    [MaxIdle : 0..MaxIdleCfg, MaxActive : 0..MaxActiveCfg, IdleTimeout : 0..MaxTimeoutCfg]

\* the released connections that the pool has not closed since
Live(cached, cs) == SelectSeq(cached, LAMBDA e : ~cs[e.conn].closed)

\* rel after Get returned r: the connection returned is checked out
RelAfterGet(rl, r) ==
    IF r.conn = NoConn
    THEN [rl EXCEPT !.cached = Live(@, r.conns)]
    ELSE [out |-> rl.out \cup {r.conn},
          cached |-> Live(SelectSeq(rl.cached, LAMBDA e : e.conn # r.conn), r.conns)]

\* rel after Put(c) returned r: c is the latest connection released
RelAfterPut(rl, c, r) ==
    IF r.err # "" THEN rl
    ELSE [out |-> rl.out \ {c},
          cached |-> Live(Append(rl.cached, [conn |-> c, time |-> now]), r.conns)]

IdleRing == hasher = HasherNew /\ ringOps = 0

InitPool ==
    /\ pool = Nil
    /\ conns = << >>
    /\ rel = NoRel
    /\ now = 0
    /\ reachable \in SUBSET {RemoteAddrOf(a) : a \in PoolAddrs}
    /\ ret = NoCall
    /\ IdleRing
    /\ IdleBalancer

DoNew ==
    \E cfg \in PoolConfigs :
        /\ pool = Nil
        /\ pool' = PoolNew(cfg).pool
        /\ ret' = [op |-> "New", cfg |-> cfg, err |-> PoolNew(cfg).err]
        /\ UNCHANGED <<conns, rel, now, reachable, ringVars, balVars>>

Acquire ==
    \E addr \in PoolAddrs :
        /\ pool # Nil
        /\ LET r == PoolGet(pool, conns, addr)
           IN  /\ Len(r.conns) <= MaxConns
               /\ pool' = r.pool
               /\ conns' = r.conns
               /\ rel' = RelAfterGet(rel, r)
               /\ ret' = [op |-> "Get", addr |-> addr, conn |-> r.conn, err |-> r.err,
                          dialed |-> r.dialed, stale |-> r.stale]
        /\ UNCHANGED <<now, reachable, ringVars, balVars>>

Release ==
    \E c \in DOMAIN conns :
        /\ pool # Nil
        /\ c \in rel.out
        /\ LET r == PoolPut(pool, conns, c)
           IN  /\ pool' = r.pool
               /\ conns' = r.conns
               /\ rel' = RelAfterPut(rel, c, r)
               /\ ret' = [op |-> "Put", conn |-> c, err |-> r.err]
        /\ UNCHANGED <<now, reachable, ringVars, balVars>>

DoClose ==
    /\ pool # Nil
    /\ pool' = PoolClose(pool, conns).pool
    /\ conns' = PoolClose(pool, conns).conns
    /\ rel' = [rel EXCEPT !.cached = Live(@, conns')]
    /\ ret' = [op |-> "Close"]
    /\ UNCHANGED <<now, reachable, ringVars, balVars>>

Cleanup ==
    /\ pool # Nil
    /\ pool' = cleanup(pool, conns).pool
    /\ conns' = cleanup(pool, conns).conns
    /\ rel' = [rel EXCEPT !.cached = Live(@, conns')]
    /\ ret' = [op |-> "cleanup"]
    /\ UNCHANGED <<now, reachable, ringVars, balVars>>

Tick ==
    /\ now < MaxTime
    /\ now' = now + 1
    /\ ret' = NoCall
    /\ UNCHANGED <<pool, conns, rel, reachable, ringVars, balVars>>

NextPool == DoNew \/ Acquire \/ Release \/ DoClose \/ Cleanup \/ Tick

SpecPool == InitPool /\ [][NextPool]_vars

\* a caller passes Put a connection it does not hold: one it has already
\* put back, or one the pool has closed
PutUnheld ==
    \E c \in DOMAIN conns :
        /\ pool # Nil
        /\ c \notin rel.out
        /\ LET r == PoolPut(pool, conns, c)
           IN  /\ pool' = r.pool
               /\ conns' = r.conns
               /\ rel' = RelAfterPut(rel, c, r)
               /\ ret' = [op |-> "Put", conn |-> c, err |-> r.err]
        /\ UNCHANGED <<now, reachable, ringVars, balVars>>

-----------------------------------------------------------------------------
\* C1: the active counter never exceeds maxActive, whichever path of Get
\* handed the connection out.
C1_ActiveWithinCap == pool # Nil => pool.active <= pool.maxActive

\* a step that is a call of Put
PutStep == ret'.op = "Put" /\ pool # Nil

\* C11: a Put called while active <= 0 returns an error and changes nothing:
\* active is not decremented, the connection is neither cached nor closed;
\* so active >= 0 in every reachable state.
C11_PutNotFromPool ==
    /\ [](pool # Nil => pool.active >= 0)
    /\ [][(PutStep /\ pool.active <= 0)
             => (ret'.err = "connection not from pool"
                 /\ pool' = pool /\ conns' = conns)]_vars

C11_Witness ==
    /\ ret.op = "Put" /\ ret.err = "connection not from pool"
    /\ pool # Nil /\ pool.active = 0 /\ ~conns[ret.conn].closed

\* C10: New returns a pool exactly when MaxIdle, MaxActive and IdleTimeout
\* are all > 0, and an error and no pool otherwise.
C10_NewRejectsNonPositive ==
    ret.op = "New" =>
        /\ (ret.err = "") <=>
              (ret.cfg.MaxIdle > 0 /\ ret.cfg.MaxActive > 0 /\ ret.cfg.IdleTimeout > 0)
        /\ (ret.err = "") <=> (pool # Nil)

\* the bucket of addr, empty when the pool has none
Bucket(p, addr) == IF addr \in DOMAIN p.idle THEN p.idle[addr] ELSE << >>

BucketConns(b) == {b[i].conn : i \in DOMAIN b}

IdleCapInv == pool # Nil => \A a \in DOMAIN pool.idle : Len(pool.idle[a]) <= pool.maxIdle

\* a step that is a Put of a connection whose bucket is already at maxIdle
PutOnFullBucket ==
    /\ ret'.op = "Put" /\ ret'.err = ""
    /\ Len(Bucket(pool, conns[ret'.conn].addr)) >= pool.maxIdle

\* C7: no bucket ever holds more than maxIdle entries, and a Put that finds
\* the bucket at maxIdle closes the connection and caches nothing.
C7_IdleCap ==
    /\ []IdleCapInv
    /\ [][PutOnFullBucket => (conns'[ret'.conn].closed /\ pool'.idle = pool.idle)]_vars

C7_Witness ==
    /\ ret.op = "Put" /\ ret.err = "" /\ conns[ret.conn].closed
    /\ Len(Bucket(pool, conns[ret.conn].addr)) = pool.maxIdle

\* the time of the latest Put of connection c, for a c in rel.cached
ReleasedAt(c) ==
    LET i == CHOOSE i \in DOMAIN rel.cached : rel.cached[i].conn = c
    IN  rel.cached[i].time

CachedConns == {rel.cached[i].conn : i \in DOMAIN rel.cached}

\* a Get step hands out a connection that is open and, if it was put back
\* before, was put back no more than idleTimeout ago
GetReturnsFresh ==
    (ret'.op = "Get" /\ ret'.conn # NoConn) =>
        /\ ~conns'[ret'.conn].closed
        /\ ret'.conn \in DOMAIN conns =>
              /\ ret'.conn \in CachedConns
              /\ now - ReleasedAt(ret'.conn) <= pool.idleTimeout

\* a Get step that pops a timed-out entry closes it, drops it from the bucket
\* and returns a newly dialed connection or an error
GetDropsStale ==
    (ret'.op = "Get" /\ Len(Bucket(pool, ret'.addr)) > 0) =>
        LET b == Bucket(pool, ret'.addr)
            c == b[Len(b)].conn
        IN  now - ReleasedAt(c) > pool.idleTimeout =>
              /\ conns'[c].closed
              /\ c \notin BucketConns(Bucket(pool', ret'.addr))
              /\ ret'.conn # c
              /\ \/ ret'.conn = NoConn /\ ret'.err # ""
                 \/ ret'.conn \notin DOMAIN conns /\ ret'.dialed

\* C8: Get never returns a connection put back more than idleTimeout ago; a
\* stale entry it pops is closed and removed, and the caller gets a newly
\* dialed connection or an error.
C8_NoStaleConn == [][GetReturnsFresh /\ GetDropsStale]_vars

C8_Witness ==
    /\ ret.op = "Get" /\ ret.stale # NoConn /\ conns[ret.stale].closed
    /\ ret.conn # NoConn /\ ret.dialed

\* the connections of bucket b in the order they were put back
ReleaseOrder(b) ==
    LET log == SelectSeq(rel.cached, LAMBDA e : e.conn \in BucketConns(b))
    IN  [i \in DOMAIN log |-> log[i].conn]

ConnsOf(b) == [i \in DOMAIN b |-> b[i].conn]

\* C9: when the bucket of addr is non-empty and the connection of it that
\* was put back last has not timed out, Get(addr) returns that connection,
\* dials nothing, and leaves the rest of the bucket in the order of the Puts.
C9_LIFO ==
    [][(ret'.op = "Get" /\ Len(Bucket(pool, ret'.addr)) > 0) =>
          LET b == Bucket(pool, ret'.addr)
              order == ReleaseOrder(b)
              m == order[Len(order)]
          IN  /\ Len(order) = Len(b)
              /\ now - ReleasedAt(m) <= pool.idleTimeout =>
                    /\ ret'.conn = m
                    /\ ~ret'.dialed
                    /\ conns' = conns
                    /\ ConnsOf(Bucket(pool', ret'.addr)) = SubSeq(order, 1, Len(order) - 1)]_vars

C9_Witness ==
    /\ ret.op = "Get" /\ ret.conn # NoConn /\ ~ret.dialed
    /\ Len(Bucket(pool, ret.addr)) >= 1
    /\ ret.conn \in rel.out

\* the bucket Get reads for addr has an entry on top that has not timed out
UsableIdle(p, addr) ==
    /\ addr \in DOMAIN p.idle
    /\ Len(p.idle[addr]) > 0
    /\ now - p.idle[addr][Len(p.idle[addr])].timeAdded <= p.idleTimeout

\* a step in which Get returns
GetStep == ret'.op = "Get" /\ pool # Nil

\* C18: a Get that returns an error leaves active as it was and returns no
\* connection; a dial failure does not count; with active >= maxActive and
\* no usable idle entry Get returns the capacity error without dialing.
C18_ErrorLeavesActive ==
    [][GetStep =>
          /\ ret'.err # "" => (pool'.active = pool.active /\ ret'.conn = NoConn)
          /\ (ret'.dialed /\ ret'.conn = NoConn)
                 => (ret'.err = "error dialing connection" /\ pool'.active = pool.active)
          /\ (pool.active >= pool.maxActive /\ ~UsableIdle(pool, ret'.addr))
                 => /\ ret'.err = "max active connections reached"
                    /\ ~ret'.dialed
                    /\ Len(conns') = Len(conns)
                    /\ pool'.active = pool.active]_vars

\* Get has returned the capacity error at full capacity after dropping a
\* timed-out entry, and a failed dial is possible from here
C18_Witness ==
    /\ ret.op = "Get" /\ ret.err = "max active connections reached"
    /\ ret.stale # NoConn
    /\ pool.active >= pool.maxActive
    /\ \E addr \in PoolAddrs : RemoteAddrOf(addr) \notin reachable

-----------------------------------------------------------------------------
(* health: the checker.  Nothing outside recordSuccess adds a host to       *)
(* c.histories, and checkAll probes the hosts of c.histories only.          *)

sampleSize == 1000
defaultPhiThreshold == 8

HealthNew(phiThreshold) ==
    [phiThreshold |-> IF phiThreshold <= 0 THEN defaultPhiThreshold ELSE phiThreshold,
     histories |-> EmptyMap,
     lastCheck |-> EmptyMap]

RECURSIVE SumRange(_, _, _)
\* times[lo] + ... + times[hi - 1], added up by halves
SumRange(times, lo, hi) ==
    IF hi <= lo THEN 0
    ELSE IF hi = lo + 1 THEN times[lo]
    ELSE SumRange(times, lo, (lo + hi) \div 2) + SumRange(times, (lo + hi) \div 2, hi)

\* the loop sum += h.times[i] for i < n
SumTimes(times, n) == SumRange(times, 0, n)

RECURSIVE SquaresRange(_, _, _, _)
SquaresRange(times, mean, lo, hi) ==
    IF hi <= lo THEN 0
    ELSE IF hi = lo + 1 THEN (times[lo] - mean) * (times[lo] - mean)
    ELSE SquaresRange(times, mean, lo, (lo + hi) \div 2)
         + SquaresRange(times, mean, (lo + hi) \div 2, hi)

\* the loop sumSquares += diff * diff for i < n, diff = h.times[i] - h.mean
SumSquares(times, mean, n) == SquaresRange(times, mean, 0, n)

RECURSIVE SqrtOfRatio(_, _, _)
\* time.Duration(math.Sqrt(num / den)): the largest k >= from with k*k*den <= num
SqrtOfRatio(num, den, from) ==
    IF (from + 1) * (from + 1) * den > num THEN from
    ELSE SqrtOfRatio(num, den, from + 1)

updateStats(h) ==
    IF h.count = 0 THEN h
    ELSE LET mean == SumTimes(h.times, h.count) \div h.count
         IN  [h EXCEPT !.mean = mean,
                       !.stdDev = SqrtOfRatio(SumSquares(h.times, mean, h.count),
                                              h.count, 0)]

NewHistory ==
    [times |-> [i \in 0..(sampleSize - 1) |-> 0], index |-> 0, count |-> 0,
     mean |-> 0, stdDev |-> 0]

\* recordSuccess with an index that stops at the last slot
recordSuccessNoWrap(ck, host, duration) ==
    LET hist == MapGet(ck.histories, host, NewHistory)
        h1 == [hist EXCEPT !.times[hist.index] = duration,
                           !.index = IF hist.index + 1 < sampleSize
                                     THEN hist.index + 1 ELSE hist.index,
                           !.count = IF hist.count < sampleSize THEN hist.count + 1
                                     ELSE hist.count]
    IN  [ck EXCEPT !.histories = MapPut(@, host, updateStats(h1)),
                   !.lastCheck = MapPut(@, host, now)]

recordSuccess(ck, host, duration) ==
    LET hist == MapGet(ck.histories, host, NewHistory)
        h1 == [hist EXCEPT !.times[hist.index] = duration,
                           !.index = (hist.index + 1) % sampleSize,
                           !.count = IF hist.count < sampleSize THEN hist.count + 1
                                     ELSE hist.count]
    IN  [ck EXCEPT !.histories = MapPut(@, host, updateStats(h1)),
                   !.lastCheck = MapPut(@, host, now)]

recordFailure(ck, host) == [ck EXCEPT !.lastCheck = MapPut(@, host, now)]

\* samples after recordSuccess(host, duration) has been called
SamplesAfter(sm, host, duration) ==
    MapPut(sm, host, Append(MapGet(sm, host, << >>), duration))

\* check(host): one TCP connect to host, taking duration when it succeeds
check(ck, host, duration) ==
    IF RemoteAddrOf(host) \in reachable
    THEN [checker |-> recordSuccess(ck, host, duration), healthy |-> TRUE]
    ELSE [checker |-> recordFailure(ck, host), healthy |-> FALSE]

\* the hosts checkAll collects under c.mu.RLock and starts a probe for
checkAllHosts(ck) == DOMAIN ck.histories

-----------------------------------------------------------------------------
(* The checker's history driven directly: recordSuccess and recordFailure   *)
(* for one host, as check calls them, and the clock                         *)

HistHost == Host1Port1

\* time.Since(start) of a successful check
Durations == {1, 3}

RECURSIVE RepeatSuccess(_, _, _, _)
\* n calls of recordSuccess(host, duration), one after the other: the first
\* half of the calls, then the others on the checker c they leave
RepeatSuccess(ck, host, duration, n) ==
    IF n = 0 THEN ck
    ELSE IF n = 1 THEN recordSuccess(ck, host, duration)
    ELSE CHOOSE r \in {RepeatSuccess(c, host, duration, n - (n \div 2)) :
                           c \in {RepeatSuccess(ck, host, duration, n \div 2)}} : TRUE

\* the calls made before the first step: none, or all but FreeCalls of the
\* calls that fill the buffer
CallsBefore == {0, sampleSize - FreeCalls}

\* a call is made after n calls
CallsLeft(n) ==
    \/ n < 2 * FreeCalls
    \/ n >= sampleSize - FreeCalls /\ n < sampleSize + FreeCalls

\* a new checker, or one on which recordSuccess(HistHost, 1) has returned
\* sampleSize - FreeCalls times at time 0
InitHistory ==
    /\ now = 0 /\ reachable = {}
    /\ pool = Nil /\ conns = << >> /\ rel = NoRel
    /\ backends = EmptyMap /\ sess = << >> /\ probing = {}
    /\ phase = "none" /\ loops = NoLoops
    /\ ret = NoCall
    /\ IdleRing
    /\ \E k \in CallsBefore :
           /\ checker = RepeatSuccess(HealthNew(0), HistHost, 1, k)
           /\ samples = IF k = 0 THEN EmptyMap
                        ELSE MapPut(EmptyMap, HistHost, [i \in 1..k |-> 1])

HistRest == <<ringVars, poolVars, backends, sess, probing, phase, loops>>

RecordSuccess ==
    \E duration \in Durations :
        /\ CallsLeft(Len(MapGet(samples, HistHost, << >>)))
        /\ checker' = recordSuccess(checker, HistHost, duration)
        /\ samples' = SamplesAfter(samples, HistHost, duration)
        /\ ret' = [op |-> "recordSuccess", host |-> HistHost, duration |-> duration]
        /\ UNCHANGED HistRest

RecordFailure ==
    /\ checker' = recordFailure(checker, HistHost)
    /\ ret' = [op |-> "recordFailure", host |-> HistHost]
    /\ UNCHANGED <<HistRest, samples>>

NextHistory == RecordSuccess \/ RecordFailure \/ Tick

SpecHistory == InitHistory /\ [][NextHistory]_vars

RECURSIVE SumOf(_, _, _)
\* s[lo] + ... + s[hi]
SumOf(s, lo, hi) ==
    IF lo > hi THEN 0
    ELSE IF lo = hi THEN s[lo]
    ELSE LET mid == (lo + hi) \div 2
         IN  SumOf(s, lo, mid) + SumOf(s, mid + 1, hi)

\* history h of a host agrees with the calls sm made for it: count is
\* min(calls, sampleSize), the call number k of the last count calls is in
\* slot (k - 1) % sampleSize, and mean is the integer sample mean of those
HistoryAgrees(h, sm) ==
    LET n == Len(sm)
        count == IF n < sampleSize THEN n ELSE sampleSize
    IN  /\ h.count = count
        /\ h.index = n % sampleSize
        /\ \A k \in (n - count + 1)..n : h.times[(k - 1) % sampleSize] = sm[k]
        /\ count > 0 => h.mean = SumOf(sm, n - count + 1, n) \div count

\* a step in which recordFailure returns
FailureStep == ret'.op = "recordFailure"

\* C20: after any sequence of recordSuccess calls for a host, also past
\* sampleSize calls, count is min(calls, sampleSize), the buffer holds the
\* most recent count durations and mean is their sample mean; a failed
\* check sets lastCheck and leaves the history as it was.
C20_HistoryOfRecentSamples ==
    /\ [](/\ DOMAIN checker.histories = DOMAIN samples
          /\ \A host \in DOMAIN samples :
                 HistoryAgrees(checker.histories[host], samples[host]))
    /\ [][FailureStep =>
             /\ checker'.histories = checker.histories
             /\ checker'.lastCheck = MapPut(checker.lastCheck, ret'.host, now)
             /\ checker'.phiThreshold = checker.phiThreshold]_vars

\* the buffer has wrapped with a duration other than the one it overwrote,
\* and a failed check has moved lastCheck
C20_Witness ==
    /\ HistHost \in DOMAIN samples
    /\ Len(samples[HistHost]) > sampleSize
    /\ samples[HistHost][Len(samples[HistHost])]
           # samples[HistHost][Len(samples[HistHost]) - sampleSize]
    /\ ret.op = "recordFailure"
    /\ checker.lastCheck[HistHost] = now /\ now > 0

-----------------------------------------------------------------------------
(* balancer: the registry, balancer.New and handleConnection *)

RECURSIVE StoreBackends(_, _)
\* the loop of balancer.New over the first n entries of cfg.Backends:
\* b.backends.Store(Sprintf("%s:%d", Host, Port), backend), health true
StoreBackends(bcs, n) ==
    IF n = 0 THEN EmptyMap
    ELSE MapPut(StoreBackends(bcs, n - 1), SprintfHostPort(bcs[n].Host, bcs[n].Port),
                [host |-> bcs[n].Host, port |-> bcs[n].Port,
                 weight |-> bcs[n].Weight, health |-> TRUE])

RECURSIVE AddBackends(_, _)
\* the same loop: b.hasher.Add(backend.host, backend.weight)
AddBackends(bcs, n) ==
    IF n = 0 THEN HasherNew
    ELSE HasherAdd(AddBackends(bcs, n - 1), bcs[n].Host, bcs[n].Weight)

BalancerNew(cfg) ==
    [pool |-> PoolNew(cfg.Pool).pool,
     err |-> PoolNew(cfg.Pool).err,
     hasher |-> AddBackends(cfg.Backends, Len(cfg.Backends)),
     checker |-> HealthNew(cfg.FailureThreshold),
     backends |-> StoreBackends(cfg.Backends, Len(cfg.Backends))]

BackendFound(reg, host) == host \in DOMAIN reg

\* a lookup that does not read the health flag
HealthIgnored(reg, host) == FALSE

Unhealthy(reg, host) == ~reg[host].health

\* getHealthyBackend(key): be is the registry key of the backend returned
getHealthyBackend(c, reg, key) ==
    LET host == HasherGet(c, key)
    IN  IF host = EmptyString THEN [be |-> EmptyString, err |-> "no backend available"]
        ELSE IF ~BackendFound(reg, host) THEN [be |-> EmptyString, err |-> "backend not found"]
        ELSE IF Unhealthy(reg, host) THEN [be |-> EmptyString, err |-> "backend unhealthy"]
        ELSE [be |-> host, err |-> ""]

updateBackendHealth(reg, host, healthy) ==
    IF host \in DOMAIN reg THEN [reg EXCEPT ![host].health = healthy] ELSE reg

\* the two io.Copy goroutines handleConnection starts
Directions == {"toBackend", "toClient"}

\* the configurations main loads: config.validate has accepted them
OneBackend == [Host |-> Host1, Port |-> 9001, Weight |-> 1]
\* a second entry whose host string is the first entry's "host:port"
AliasBackend == [Host |-> Host1Port1, Port |-> 9002, Weight |-> 1]

BackendLists == {<<OneBackend>>, <<OneBackend, AliasBackend>>}

\* pool settings that validate accepts: one or two active connections
PoolSettings ==
    {[MaxIdle |-> 1, MaxActive |-> 1, IdleTimeout |-> 1],
     [MaxIdle |-> 1, MaxActive |-> 2, IdleTimeout |-> 1]}

Configs ==
    [Backends : BackendLists,
     FailureThreshold : {defaultPhiThreshold},
     Pool : PoolSettings]

\* after balancer.New(cfg) and Start: listening, checker loop and pool
\* cleanup loop running
Init ==
    \E cfg \in Configs :
        /\ pool = BalancerNew(cfg).pool
        /\ hasher = BalancerNew(cfg).hasher
        /\ checker = BalancerNew(cfg).checker
        /\ backends = BalancerNew(cfg).backends
        /\ ringOps = 0
        /\ conns = << >>
        /\ rel = NoRel
        /\ now = 0
        /\ reachable \in SUBSET {Host1Port1}
        /\ sess = << >>
        /\ probing = {}
        /\ phase = "serving"
        /\ loops = NoLoops
        /\ samples = EmptyMap
        /\ ret = NoCall

NewSession(key) ==
    [key |-> key, pc |-> "accepted", be |-> EmptyString, conn |-> NoConn,
     done |-> {}, drop |-> "", gets |-> 0, puts |-> 0]

\* listener.Accept() returns a client connection; go b.handleConnection.
\* The loop is left once the context is cancelled and the listener closed;
\* an Accept already blocked when cancel() runs can still return a connection
Accept ==
    \E key \in ClientKeys :
        /\ phase \in {"serving", "cancelled"}
        /\ Len(sess) < MaxSessions
        /\ sess' = Append(sess, NewSession(key))
        /\ ret' = NoCall
        /\ UNCHANGED <<ringVars, poolVars, backends, checker, probing, phase, loops, samples>>

\* handleConnection up to the result of getHealthyBackend; an error returns,
\* which closes the client connection
Lookup ==
    \E s \in DOMAIN sess :
        /\ sess[s].pc = "accepted"
        /\ LET r == getHealthyBackend(hasher, backends, sess[s].key)
           IN  /\ sess' = [sess EXCEPT ![s].pc = IF r.err = "" THEN "found" ELSE "closed",
                                       ![s].be = r.be,
                                       ![s].drop = r.err]
               /\ ret' = NoCall
        /\ UNCHANGED <<ringVars, poolVars, backends, checker, probing, phase, loops, samples>>

\* b.pool.Get(Sprintf("%s:%d", backend.host, backend.port)); an error returns
HandlerGet ==
    \E s \in DOMAIN sess :
        /\ sess[s].pc = "found"
        /\ LET addr == SprintfHostPort(backends[sess[s].be].host, backends[sess[s].be].port)
               r == PoolGet(pool, conns, addr)
           IN  /\ Len(r.conns) <= MaxConns
               /\ pool' = r.pool
               /\ conns' = r.conns
               /\ rel' = RelAfterGet(rel, r)
               /\ sess' = [sess EXCEPT ![s].pc = IF r.err = "" THEN "proxying" ELSE "closed",
                                       ![s].conn = r.conn,
                                       ![s].drop = r.err,
                                       ![s].gets = @ + 1]
               /\ ret' = NoCall
        /\ UNCHANGED <<ringVars, now, reachable, backends, checker, probing, phase, loops, samples>>

\* one of the two proxy goroutines returns from io.Copy and sends on errCh
\* (buffered for both); it may outlive the handler
ProxyDone ==
    \E s \in DOMAIN sess, d \in Directions :
        /\ sess[s].conn # NoConn
        /\ d \notin sess[s].done
        /\ sess' = [sess EXCEPT ![s].done = @ \cup {d}]
        /\ ret' = NoCall
        /\ UNCHANGED <<ringVars, poolVars, backends, checker, probing, phase, loops, samples>>

\* what the deferred b.pool.Put(backendConn) does to the session
HandlerPut(ss, r) == [ss EXCEPT !.pc = "closed", !.puts = @ + 1]

\* the handler receives the first completion from errCh and returns: the
\* deferred b.pool.Put(backendConn) runs, then clientConn.Close()
Finish ==
    \E s \in DOMAIN sess :
        /\ sess[s].pc = "proxying"
        /\ sess[s].done # {}
        /\ LET r == PoolPut(pool, conns, sess[s].conn)
           IN  /\ pool' = r.pool
               /\ conns' = r.conns
               /\ rel' = RelAfterPut(rel, sess[s].conn, r)
               /\ sess' = [sess EXCEPT ![s] = HandlerPut(@, r)]
               /\ ret' = NoCall
        /\ UNCHANGED <<ringVars, now, reachable, backends, checker, probing, phase, loops, samples>>

\* the ticker of Checker.Start fires: checkAll starts a probe per known host.
\* The loop returns once the context is cancelled
CheckAll ==
    /\ probing' = probing \cup checkAllHosts(checker)
    /\ ret' = [op |-> "checkAll", hosts |-> checkAllHosts(checker)]
    /\ phase = "serving"
    /\ UNCHANGED <<ringVars, poolVars, backends, sess, checker, phase, loops, samples>>

\* a probe goroutine: healthy := c.check(host); updateFunc(host, healthy)
Probe ==
    \E host \in probing, duration \in 1..2 :
        /\ checker' = check(checker, host, duration).checker
        /\ backends' = updateBackendHealth(backends, host,
                                           check(checker, host, duration).healthy)
        /\ probing' = probing \ {host}
        /\ samples' = IF check(checker, host, duration).healthy
                      THEN SamplesAfter(samples, host, duration) ELSE samples
        /\ ret' = [op |-> "check", host |-> host,
                   healthy |-> check(checker, host, duration).healthy]
        /\ UNCHANGED <<ringVars, poolVars, sess, phase, loops>>

\* a step of the checker's goroutines: the ticker fires, or a probe that
\* checkAll started runs.  checkAll reads its hosts from c.histories, which
\* New leaves empty and only a probe's recordSuccess fills.
DetectorStep ==
    /\ pool # Nil
    /\ (CheckAll \/ Probe)

\* main receives the signal: cancel()
Cancel ==
    /\ phase = "serving"
    /\ phase' = "cancelled"
    /\ ret' = NoCall
    /\ UNCHANGED <<ringVars, poolVars, backends, sess, checker, probing, loops, samples>>

\* lb.Shutdown(ctx): b.listener.Close(), then b.pool.Close()
Shutdown ==
    /\ phase = "cancelled"
    /\ phase' = "stopped"
    /\ pool' = PoolClose(pool, conns).pool
    /\ conns' = PoolClose(pool, conns).conns
    /\ rel' = [rel EXCEPT !.cached = Live(@, conns')]
    /\ ret' = NoCall
    /\ UNCHANGED <<ringVars, now, reachable, backends, sess, checker, probing, loops, samples>>

Next == Accept \/ Lookup \/ HandlerGet \/ ProxyDone \/ Finish \/ DetectorStep
            \/ Cleanup \/ Tick \/ Cancel \/ Shutdown

Spec == Init /\ [][Next]_vars

\* the ticker of the checker keeps firing
SpecLive == Spec /\ WF_vars(DetectorStep)

\* something outside the checker calls the health callback it was handed
\* (Start's updateFunc, here b.updateBackendHealth)
UpdateHosts == {Host1, Host1Port1}

HealthUpdate ==
    \E host \in UpdateHosts, healthy \in BOOLEAN :
        /\ backends' = updateBackendHealth(backends, host, healthy)
        /\ ret' = NoCall
        /\ UNCHANGED <<ringVars, poolVars, sess, checker, probing, phase, loops, samples>>

NextDriven == Next \/ HealthUpdate

SpecDriven == Init /\ [][NextDriven]_vars

-----------------------------------------------------------------------------
(* The sessions with the two copy tasks blocked in io.Copy: a task returns  *)
(* when its source ends or fails, or when a connection it uses is closed    *)

\* the client closes or resets its side: io.Copy(backendConn, clientConn)
\* returns and the task sends on errCh
ClientEnds ==
    \E s \in DOMAIN sess :
        /\ sess[s].pc = "proxying"
        /\ "toBackend" \notin sess[s].done
        /\ sess' = [sess EXCEPT ![s].done = @ \cup {"toBackend"}]
        /\ ret' = NoCall
        /\ UNCHANGED <<ringVars, poolVars, backends, checker, probing, phase, loops, samples>>

\* the backend closes, resets or writes on the connection of a session whose
\* task still reads it: io.Copy(clientConn, backendConn) returns (after
\* clientConn.Close() the write of what was read fails)
BackendEnds ==
    \E s \in DOMAIN sess :
        /\ sess[s].conn # NoConn
        /\ "toClient" \notin sess[s].done
        /\ sess' = [sess EXCEPT ![s].done = @ \cup {"toClient"}]
        /\ ret' = NoCall
        /\ UNCHANGED <<ringVars, poolVars, backends, checker, probing, phase, loops, samples>>

\* the handler has returned and its deferred clientConn.Close() has run: the
\* Read of io.Copy(backendConn, clientConn) fails
ClientConnClosed ==
    \E s \in DOMAIN sess :
        /\ sess[s].pc = "closed" /\ sess[s].conn # NoConn
        /\ "toBackend" \notin sess[s].done
        /\ sess' = [sess EXCEPT ![s].done = @ \cup {"toBackend"}]
        /\ ret' = NoCall
        /\ UNCHANGED <<ringVars, poolVars, backends, checker, probing, phase, loops, samples>>

\* the pool has closed the backend connection: the Read of
\* io.Copy(clientConn, backendConn) fails
BackendConnClosed ==
    \E s \in DOMAIN sess :
        /\ sess[s].conn # NoConn /\ conns[sess[s].conn].closed
        /\ "toClient" \notin sess[s].done
        /\ sess' = [sess EXCEPT ![s].done = @ \cup {"toClient"}]
        /\ ret' = NoCall
        /\ UNCHANGED <<ringVars, poolVars, backends, checker, probing, phase, loops, samples>>

\* a time stamp one tick older, kept within MaxTime of the clock
Aged(t) == IF now - t >= MaxTime THEN t ELSE t - 1

\* the clock goes on for ever: up to MaxTime it advances, from then on the
\* time stamps move back instead, which leaves every time.Since as it
\* would be
TimePasses ==
    /\ pool # Nil
    /\ IF now < MaxTime
       THEN now' = now + 1 /\ UNCHANGED <<pool, rel>>
       ELSE /\ now' = now
            /\ pool' = [pool EXCEPT !.idle =
                           [a \in DOMAIN @ |->
                               [i \in DOMAIN @[a] |->
                                   [@[a][i] EXCEPT !.timeAdded = Aged(@)]]]]
            /\ rel' = [rel EXCEPT !.cached =
                           [i \in DOMAIN @ |-> [@[i] EXCEPT !.time = Aged(@)]]]
    /\ ret' = NoCall
    /\ UNCHANGED <<conns, reachable, ringVars, balVars>>

NextCopy == Accept \/ Lookup \/ HandlerGet \/ Finish \/ ClientEnds \/ BackendEnds
                \/ ClientConnClosed \/ BackendConnClosed \/ Cleanup \/ TimePasses

\* the handler and the tasks run when they can, the cleanup ticker fires and
\* time passes; clients and backends are free to stay silent
SpecCopy ==
    /\ Init /\ [][NextCopy]_vars
    /\ WF_vars(Finish) /\ WF_vars(ClientConnClosed) /\ WF_vars(BackendConnClosed)
    /\ WF_vars(Cleanup) /\ WF_vars(TimePasses)

-----------------------------------------------------------------------------
(* The pool of a validated configuration used for several destination      *)
(* addresses                                                                *)

WideAddrs == {Host1Port1, SprintfHostPort(Host2, 9001), SprintfHostPort(Host2, 9002)}

InitWide ==
    \E cfg \in PoolSettings :
        /\ pool = PoolNew(cfg).pool
        /\ conns = << >>
        /\ rel = NoRel
        /\ now = 0
        /\ reachable \in SUBSET WideAddrs
        /\ ret = NoCall
        /\ IdleRing
        /\ IdleBalancer

\* Get for any of the addresses; one connection more than MaxConns may be dialed
AcquireWide ==
    \E addr \in WideAddrs :
        /\ LET r == PoolGet(pool, conns, addr)
           IN  /\ Len(r.conns) <= MaxConns + 1
               /\ pool' = r.pool
               /\ conns' = r.conns
               /\ rel' = RelAfterGet(rel, r)
               /\ ret' = [op |-> "Get", addr |-> addr, conn |-> r.conn, err |-> r.err,
                          dialed |-> r.dialed, stale |-> r.stale]
        /\ UNCHANGED <<now, reachable, ringVars, balVars>>

NextWide == AcquireWide \/ Release \/ DoClose \/ Cleanup \/ Tick

SpecWide == InitWide /\ [][NextWide]_vars

\* a pool of a validated configuration, any of the endpoints reachable
InitMisuse ==
    \E cfg \in PoolSettings :
        /\ pool = PoolNew(cfg).pool
        /\ conns = << >>
        /\ rel = NoRel
        /\ now = 0
        /\ reachable \in SUBSET {RemoteAddrOf(a) : a \in PoolAddrs}
        /\ ret = NoCall
        /\ IdleRing
        /\ IdleBalancer

NextMisuse == Acquire \/ Release \/ PutUnheld \/ DoClose \/ Cleanup \/ Tick

\* the pool with callers that may also misuse Put
SpecMisuse == InitMisuse /\ [][NextMisuse]_vars

\* the number of idle entries of p, over all buckets
TotalIdle(p) ==
    Cardinality(UNION {{<<a, i>> : i \in DOMAIN p.idle[a]} : a \in DOMAIN p.idle})

\* C16: between calls, active plus the idle entries of all destination
\* addresses together is at most maxActive + maxIdle, however many
\* addresses are in use.
C16_TotalWithinCaps ==
    pool.active + TotalIdle(pool) <= pool.maxActive + pool.maxIdle

-----------------------------------------------------------------------------
(* Cancellation: main, the accept loop of balancer.Start and the loop of    *)
(* Checker.Start, statement by statement.  loops.accept and loops.detector  *)
(* are the positions of the two loops, loops.listener the listening socket, *)
(* loops.field whether b.listener has been assigned, loops.ctxDone whether  *)
(* the context is cancelled.                                                *)

\* after balancer.New; main has started go lb.Start(ctx) and waits on sigChan
InitCancel ==
    \E cfg \in Configs :
        /\ pool = BalancerNew(cfg).pool
        /\ hasher = BalancerNew(cfg).hasher
        /\ checker = BalancerNew(cfg).checker
        /\ backends = BalancerNew(cfg).backends
        /\ ringOps = 0
        /\ conns = << >>
        /\ rel = NoRel
        /\ now = 0
        /\ reachable = {}
        /\ sess = << >>
        /\ probing = {}
        /\ phase = "serving"
        /\ loops = [accept |-> "listen", detector |-> "none", listener |-> "none",
                    field |-> FALSE, ctxDone |-> FALSE]
        /\ samples = EmptyMap
        /\ ret = NoCall

CancelRest == <<ringVars, now, reachable, backends, checker, probing, samples>>

\* Start: net.Listen succeeds; the listener is in the local variable
StartListen ==
    /\ loops.accept = "listen"
    /\ loops' = [loops EXCEPT !.accept = "assign", !.listener = "open"]
    /\ ret' = NoCall
    /\ UNCHANGED <<CancelRest, pool, conns, rel, sess, phase>>

\* Start: net.Listen fails and Start returns the error; main's goroutine
\* then calls cancel()
StartListenFails ==
    /\ loops.accept = "listen"
    /\ loops' = [loops EXCEPT !.accept = "returned", !.ctxDone = TRUE]
    /\ ret' = NoCall
    /\ UNCHANGED <<CancelRest, pool, conns, rel, sess, phase>>

\* Start: b.listener = listener; go b.health.Start(ctx, ...)
StartAssign ==
    /\ loops.accept = "assign"
    /\ loops' = [loops EXCEPT !.accept = "select", !.field = TRUE, !.detector = "select"]
    /\ ret' = NoCall
    /\ UNCHANGED <<CancelRest, pool, conns, rel, sess, phase>>

\* Start: select { case <-ctx.Done(): return nil; default: listener.Accept() }
StartSelect ==
    /\ loops.accept = "select"
    /\ loops' = [loops EXCEPT !.accept = IF loops.ctxDone THEN "returned" ELSE "accepting"]
    /\ ret' = NoCall
    /\ UNCHANGED <<CancelRest, pool, conns, rel, sess, phase>>

\* Start: Accept on a closed listener returns an error; the loop returns
\* when ctx.Err() != nil and continues otherwise
AcceptError ==
    /\ loops.accept = "accepting"
    /\ loops.listener = "closed"
    /\ loops' = [loops EXCEPT !.accept = IF loops.ctxDone THEN "returned" ELSE "select"]
    /\ ret' = NoCall
    /\ UNCHANGED <<CancelRest, pool, conns, rel, sess, phase>>

\* a client connects while Start is in Accept: go b.handleConnection
AcceptConn ==
    \E key \in ClientKeys :
        /\ loops.accept = "accepting"
        /\ loops.listener = "open"
        /\ Len(sess) < MaxSessions
        /\ sess' = Append(sess, NewSession(key))
        /\ loops' = [loops EXCEPT !.accept = "select"]
        /\ ret' = NoCall
        /\ UNCHANGED <<CancelRest, pool, conns, rel, phase>>

\* Checker.Start: case <-ticker.C: c.checkAll(updateFunc)
DetectorTick ==
    /\ loops.detector = "select"
    /\ probing' = probing \cup checkAllHosts(checker)
    /\ ret' = [op |-> "checkAll", hosts |-> checkAllHosts(checker)]
    /\ UNCHANGED <<ringVars, poolVars, backends, sess, checker, phase, loops, samples>>

\* Checker.Start: case <-ctx.Done(): return
DetectorReturn ==
    /\ loops.detector = "select"
    /\ loops.ctxDone
    /\ loops' = [loops EXCEPT !.detector = "returned"]
    /\ ret' = NoCall
    /\ UNCHANGED <<CancelRest, pool, conns, rel, sess, phase>>

\* main: the signal arrives; cancel()
MainCancel ==
    /\ phase = "serving"
    /\ phase' = "cancelled"
    /\ loops' = [loops EXCEPT !.ctxDone = TRUE]
    /\ ret' = NoCall
    /\ UNCHANGED <<CancelRest, pool, conns, rel, sess>>

\* a Shutdown that leaves the listener open
ListenerLeftOpen(lp) == lp

\* Shutdown: if b.listener != nil { b.listener.Close() }
CloseListener(lp) == IF lp.field THEN [lp EXCEPT !.listener = "closed"] ELSE lp

\* main: lb.Shutdown(ctx): the listener, then b.pool.Close().  Shutdown reads
\* b.listener without synchronisation: while Start is writing the field the
\* read gives nil, or a half-written interface value whose Close fails, and
\* Shutdown then returns before b.pool.Close()
MainShutdown ==
    \E halfWritten \in (IF loops.accept = "assign" THEN BOOLEAN ELSE {FALSE}) :
        /\ phase = "cancelled"
        /\ phase' = "stopped"
        /\ loops' = CloseListener(loops)
        /\ pool' = IF halfWritten THEN pool ELSE PoolClose(pool, conns).pool
        /\ conns' = IF halfWritten THEN conns ELSE PoolClose(pool, conns).conns
        /\ rel' = [rel EXCEPT !.cached = Live(@, conns')]
        /\ ret' = IF halfWritten THEN [op |-> "Shutdown", err |-> "closing listener"]
                                 ELSE NoCall
        /\ UNCHANGED <<CancelRest, sess>>

\* the steps the accept loop takes by itself
StartStep == StartListen \/ StartListenFails \/ StartAssign \/ StartSelect \/ AcceptError

NextCancel ==
    StartStep \/ AcceptConn \/ DetectorTick \/ DetectorReturn \/ MainCancel \/ MainShutdown

\* the goroutines keep running: the accept loop takes its next step, the
\* detector's select takes the ready ctx.Done() case, main goes on from
\* cancel() to Shutdown.  Clients and the signal come when they come.
SpecCancel ==
    /\ InitCancel /\ [][NextCancel]_vars
    /\ WF_vars(StartStep) /\ WF_vars(DetectorReturn) /\ WF_vars(MainShutdown)

-----------------------------------------------------------------------------
(* Properties of the dispatcher *)

\* the address handleConnection passes to Pool.Get for registry entry k
AddrOf(k) == SprintfHostPort(backends[k].host, backends[k].port)

\* session s is at the call of getHealthyBackend and this step returns from it
LooksUp(s) == s \in DOMAIN sess /\ sess[s].pc = "accepted" /\ sess'[s].pc # "accepted"

\* the premises of the single-backend scenario: one registry entry, its health
\* flag true, its address accepting connections, the pool below maxActive
SingleBackendUp ==
    /\ Cardinality(DOMAIN backends) = 1
    /\ \A k \in DOMAIN backends : backends[k].health /\ AddrOf(k) \in reachable
    /\ pool.active < pool.maxActive

\* C3: with one configured backend that is healthy and reachable and the pool
\* below maxActive, the handler of every accepted client connection resolves
\* the host Ring.Get returns to that backend and goes on to Pool.Get for its
\* "host:port" instead of dropping the client.
C3_SingleBackendForwarded ==
    [][\A s \in DOMAIN sess :
          (SingleBackendUp /\ LooksUp(s))
              => /\ sess'[s].pc = "found"
                 /\ sess'[s].be \in DOMAIN backends
                 /\ AddrOf(sess'[s].be) = Host1Port1]_vars

\* C4: while the balancer keeps serving and the detector's ticker keeps
\* firing, a configured backend whose port is closed is eventually probed
\* and its health flag in the registry becomes false.
C4_ClosedBackendMarkedUnhealthy ==
    [](phase = "serving")
        => ((Host1Port1 \in DOMAIN backends /\ Host1Port1 \notin reachable)
                ~> (~backends[Host1Port1].health))

\* the host the ring gives for the key of session s is registered and its
\* health flag is false
ReadsUnhealthy(s) ==
    LET host == HasherGet(hasher, sess[s].key)
    IN  host \in DOMAIN backends /\ ~backends[host].health

DroppedUnhealthy(s) == sess[s].drop = "backend unhealthy"

\* C5: a handler that reads health = false returns without calling Pool.Get,
\* leaves the pool as it was and tries no other backend: the session is closed
\* with no backend and no connection, then and ever after.
C5_NoAcquireWhenUnhealthy ==
    /\ [][\A s \in DOMAIN sess :
             (LooksUp(s) /\ ReadsUnhealthy(s))
                 => /\ sess'[s].pc = "closed"
                    /\ sess'[s].be = EmptyString
                    /\ DroppedUnhealthy(s)'
                    /\ UNCHANGED <<pool, conns, rel>>]_vars
    /\ [](\A s \in DOMAIN sess :
             DroppedUnhealthy(s)
                 => /\ sess[s].pc = "closed"
                    /\ sess[s].gets = 0
                    /\ sess[s].conn = NoConn
                    /\ sess[s].conn \notin rel.out)

C5_Witness ==
    \E s \in DOMAIN sess : DroppedUnhealthy(s) /\ sess[s].pc = "closed"

\* the sessions whose handler holds a backend connection
Proxying == {s \in DOMAIN sess : sess[s].pc = "proxying"}

Acquired(s) == sess[s].gets = 1 /\ sess[s].conn # NoConn

Quiescent == \A s \in DOMAIN sess : sess[s].pc = "closed"

\* C6: a handler passes the connection a successful Pool.Get gave it to
\* Pool.Put exactly once on its way out, a handler whose Get failed puts
\* nothing, the connections checked out are those of the running handlers,
\* and with no handler in flight the active counter is 0.
C6_ReleasedExactlyOnce ==
    /\ \A s \in DOMAIN sess :
           /\ sess[s].pc = "closed" => sess[s].puts = (IF Acquired(s) THEN 1 ELSE 0)
           /\ sess[s].pc # "closed" => sess[s].puts = 0
           /\ sess[s].pc = "proxying" => Acquired(s)
    /\ rel.out = {sess[s].conn : s \in Proxying}
    /\ pool.active = Cardinality(Proxying)
    /\ Quiescent => pool.active = 0

C6_Witness ==
    /\ Quiescent
    /\ \E s \in DOMAIN sess : Acquired(s) /\ sess[s].puts = 1
    /\ \E s \in DOMAIN sess : sess[s].gets = 1 /\ ~Acquired(s) /\ sess[s].puts = 0

\* C14: the handler of a session puts the backend connection back only
\* after both copy tasks of the session have terminated.
C14_PutAfterBothCopies ==
    [][\A s \in DOMAIN sess :
          (sess[s].pc = "proxying" /\ sess'[s].pc = "closed")
              => sess[s].done = Directions]_vars

\* the sessions with a task that may still read or write connection c: the
\* handler holds it, or a copy task of the session has not returned
UsersOf(c) ==
    {s \in DOMAIN sess :
        sess[s].conn = c /\ (sess[s].pc = "proxying" \/ sess[s].done # Directions)}

\* the idle entries that hold connection c, as <<bucket, position>>
IdleEntriesOf(c) ==
    UNION {{<<a, i>> : i \in {j \in DOMAIN pool.idle[a] : pool.idle[a][j].conn = c}} :
              a \in DOMAIN pool.idle}

\* C15: a backend connection is in at most one place: with the tasks of one
\* session, or in one idle bucket once, or closed; so none is cached, or
\* handed to a second session, while a copy task still uses it.
C15_OnePlace ==
    \A c \in DOMAIN conns :
        /\ Cardinality(UsersOf(c)) + Cardinality(IdleEntriesOf(c)) <= 1
        /\ conns[c].closed => IdleEntriesOf(c) = {}

\* Shutdown has run Pool.Close and every handler started has returned
AllHandlersDone ==
    /\ phase = "stopped"
    /\ \A s \in DOMAIN sess : sess[s].pc = "closed"

\* C23: once Shutdown has run Pool.Close and every handler in flight has
\* finished, no idle bucket holds an open connection: a Put after Close
\* does not fill the idle buckets again.
C23_NoIdleAfterClose ==
    AllHandlersDone
        => \A a \in DOMAIN pool.idle : \A i \in DOMAIN pool.idle[a] :
               conns[pool.idle[a][i].conn].closed

\* the handler of session s has returned after a first completion
Returned(s) == s \in DOMAIN sess /\ sess[s].pc = "closed" /\ sess[s].done # {}

\* both copy tasks of session s have returned
BothCopiesDone(s) == s \in DOMAIN sess /\ sess[s].done = Directions

\* C22: once a copy task of a session has completed and the handler has
\* returned, the other copy task of the session terminates as well, also
\* with the backend connection open and silent; at most two completions are
\* sent on errCh, which holds two.
C22_OtherCopyTerminates ==
    /\ \A s \in 1..MaxSessions : Returned(s) ~> BothCopiesDone(s)
    /\ [](\A s \in DOMAIN sess : Cardinality(sess[s].done) <= 2)

-----------------------------------------------------------------------------
(* Properties of cancellation *)

LoopsReturned ==
    loops.accept = "returned" /\ loops.detector \in {"none", "returned"}

\* C12: once the context is cancelled, the accept loop and the detector loop
\* (when it was started) both return, whatever the order of cancel(),
\* Shutdown and the loops' steps, also when Accept is blocked.
C12_LoopsReturnAfterCancel == loops.ctxDone ~> LoopsReturned

\* the accept loop was blocked in Accept when the context was cancelled, and
\* both loops have returned
C12_Witness ==
    /\ LoopsReturned /\ loops.detector = "returned"
    /\ loops.listener = "closed" /\ phase = "stopped"

=============================================================================
